---- MODULE Spec2Model ----
(***************************************************************************)
(* Model of alliance-genome/agr_embedding:                                 *)
(*   - granite-4.0/benchmark_api.py : Flask trigger server                 *)
(*   - granite-4.0/benchmark.py     : benchmark client                     *)
(*   - server.py                    : embedding server                     *)
(*   - test_api.py                  : embedding smoke-test client          *)
(* Each program has its own next-state relation over a shared state.       *)
(***************************************************************************)
EXTENDS Integers, Sequences, FiniteSets, Bags, TLC

\* ------------------------------------------------------------------------
\* Bounds
\* ------------------------------------------------------------------------
\* number of POST /benchmark requests (one Flask request thread each)
MaxPosts == 2
\* number of samples one ResourceMonitor takes at most
MaxSamples == 1
\* number of texts in one request to the embedding server
MaxTexts == 2
\* number of symbols in one text
MaxTextLen == 2
\* fixed-point resolution of the model's floats: units per 1.0
Scale == 1000
\* floating tolerance of a norm, in fixed-point units
NormTolerance == 5
\* rows of a batch handed to last_token_pool
MaxBatch == 2
\* positions of a row of such a batch
MaxSeqLen == 4
\* number of sampler threads that outlive their thread.join(timeout=1.0) and
\* are still running at the same time
MaxLingering == 1

\* ------------------------------------------------------------------------
\* State
\* ------------------------------------------------------------------------
VARIABLES
  \* benchmark_api.py
  benchmark_running,   \* global flag, line 28
  latest_results,      \* global record or None, line 29
  benchmark_lock,      \* threading.Lock, line 30: Unlocked or the holding thread
  req,                 \* per POST /benchmark request thread: position and locals
  wpc,                 \* per worker thread (run_benchmark_async): position
  storeCount,          \* history: number of assignments to latest_results
  resultsResp,         \* last answer of GET /results
  statusResp,          \* last answer of GET /status
  \* benchmark.py
  bpc,                 \* position of the main thread
  ti,                  \* index of the test run_all_tests is at (1..NumTests)
  results,             \* GraniteBenchmark.results, line 92
  mon,                 \* the ResourceMonitor of the running test and its thread
  orphans,             \* bag of sampler threads that outlived their test
  cur,                 \* locals of the running run_inference_test
  health,              \* outcome of GET /health and what test_health returned
  postLog,             \* history: test names POSTed to /v1/chat/completions
  backend,             \* the inference server the benchmark talks to
  exitCode,            \* return value of main, -1 while running
  \* server.py
  loaded,              \* model and tokenizer are set (lifespan has run)
  epc,                 \* "idle" or "responded"
  ereq,                \* the request being answered
  eresp,               \* its answer
  \* test_api.py
  spc,                 \* position of main
  doc_embeddings,      \* what test_embed_documents returned
  query_embeddings,    \* what test_embed_queries returned
  similarityOk,        \* what test_similarity returned ("unset" before)
  allPassed,           \* "All tests passed!" was printed
  smokeExit,           \* exit status of the script, -1 while running
  \* server.py, last_token_pool called on its own
  ppc,                 \* "idle" or "pooled"
  pmask,               \* attention_mask argument: [row][position] -> 0 or 1
  phidden,             \* last_hidden_states argument: [row][position] -> vector
  ppooled              \* what the call returned: [row] -> vector

trigVars == <<benchmark_running, latest_results, benchmark_lock, req, wpc,
              storeCount, resultsResp, statusResp>>

benchVars == <<bpc, ti, results, mon, orphans, cur, health, postLog,
               backend, exitCode>>

embedVars == <<loaded, epc, ereq, eresp>>

smokeVars == <<spc, doc_embeddings, query_embeddings, similarityOk, allPassed,
               smokeExit>>

poolVars == <<ppc, pmask, phidden, ppooled>>

vars == <<trigVars, benchVars, embedVars, smokeVars, poolVars>>

\* Python's None as the value of latest_results
None == [kind |-> "None", run |-> 0]
\* no answer received yet
Unset == "unset"
NoResp == [code |-> 0, body |-> None]

\* ------------------------------------------------------------------------
\* benchmark_api.py
\* ------------------------------------------------------------------------
Posts == 1..MaxPosts

\* What the client sent: no JSON content type, a JSON object, a JSON content
\* type with an unparsable body, JSON that is not an object (list, null, ...)
Bodies == {"absent", "object", "malformed", "nonobject"}

\* the lock is held by no thread
Unlocked == <<"nobody", 0>>
HThread(h) == <<"request", h>>
WThread(w) == <<"worker", w>>

\* saw: the value of benchmark_running read at line 108 ("True"/"False")
IdleReq == [pc |-> "idle", body |-> "absent", saw |-> Unset, code |-> 0,
            status |-> Unset]

TrigInit ==
  /\ benchmark_running = FALSE
  /\ latest_results = None
  /\ benchmark_lock = Unlocked
  /\ req = [h \in Posts |-> IdleReq]
  /\ wpc = [w \in Posts |-> "none"]
  /\ storeCount = 0
  /\ resultsResp = NoResp
  /\ statusResp = [code |-> 0, running |-> FALSE, has_results |-> FALSE]

\* threading.Lock.acquire: blocks until the lock is free
LockFree == benchmark_lock = Unlocked

\* A POST /benchmark is dispatched to trigger_benchmark (line 103)
PostArrive(h, b) ==
  /\ req[h].pc = "idle"
  /\ req' = [req EXCEPT ![h] = [@ EXCEPT !.pc = "acquire", !.body = b]]
  /\ UNCHANGED <<benchmark_running, latest_results, benchmark_lock, wpc,
                 storeCount, resultsResp, statusResp, benchVars, embedVars, smokeVars, poolVars>>

\* line 107: with benchmark_lock
PostAcquire(h) ==
  /\ req[h].pc = "acquire"
  /\ LockFree
  /\ benchmark_lock' = HThread(h)
  /\ req' = [req EXCEPT ![h].pc = "test"]
  /\ UNCHANGED <<benchmark_running, latest_results, wpc, storeCount,
                 resultsResp, statusResp, benchVars, embedVars, smokeVars, poolVars>>

\* Mutant: the guard of line 108 is missing, every request goes on to line 114
PostTest_NoReject(h) ==
  /\ req[h].pc = "test"
  /\ benchmark_lock = HThread(h)
  /\ req' = [req EXCEPT ![h] = [@ EXCEPT !.pc = "set",
                 !.saw = IF benchmark_running THEN "True" ELSE "False"]]
  /\ UNCHANGED <<benchmark_running, latest_results, benchmark_lock, wpc,
                 storeCount, resultsResp, statusResp, benchVars, embedVars, smokeVars, poolVars>>

\* lines 108-112: if benchmark_running: return 409 (leaving the with block
\* releases the lock)
PostTest(h) ==
  /\ req[h].pc = "test"
  /\ benchmark_lock = HThread(h)
  /\ IF benchmark_running
       THEN /\ req' = [req EXCEPT ![h] = [@ EXCEPT !.pc = "done", !.saw = "True",
                                                   !.code = 409, !.status = "busy"]]
            /\ benchmark_lock' = Unlocked
       ELSE /\ req' = [req EXCEPT ![h] = [@ EXCEPT !.pc = "set", !.saw = "False"]]
            /\ UNCHANGED benchmark_lock
  /\ UNCHANGED <<benchmark_running, latest_results, wpc, storeCount,
                 resultsResp, statusResp, benchVars, embedVars, smokeVars, poolVars>>

\* line 114: benchmark_running = True, then the with block ends
PostSet(h) ==
  /\ req[h].pc = "set"
  /\ benchmark_lock = HThread(h)
  /\ benchmark_running' = TRUE
  /\ benchmark_lock' = Unlocked
  /\ req' = [req EXCEPT ![h].pc = "parse"]
  /\ UNCHANGED <<latest_results, wpc, storeCount, resultsResp, statusResp, benchVars, embedVars, smokeVars, poolVars>>

\* lines 117-119: request.get_json() raises BadRequest (400) on a malformed
\* JSON body; data.get raises AttributeError (500) when data is no dict
PostParse(h) ==
  /\ req[h].pc = "parse"
  /\ req' = [req EXCEPT ![h] =
       CASE @.body = "malformed" -> [@ EXCEPT !.pc = "done", !.code = 400, !.status = "error"]
         [] @.body = "nonobject" -> [@ EXCEPT !.pc = "done", !.code = 500, !.status = "error"]
         [] OTHER -> [@ EXCEPT !.pc = "start"]]
  /\ UNCHANGED <<benchmark_running, latest_results, benchmark_lock, wpc,
                 storeCount, resultsResp, statusResp, benchVars, embedVars, smokeVars, poolVars>>

\* Mutant: the thread is started although the request was refused or failed
PostStart_Always(h) ==
  /\ req[h].pc \in {"start", "done"}
  /\ wpc[h] = "none"
  /\ wpc' = [wpc EXCEPT ![h] = "run"]
  /\ req' = [req EXCEPT ![h] = [@ EXCEPT !.pc = "done"]]
  /\ UNCHANGED <<benchmark_running, latest_results, benchmark_lock,
                 storeCount, resultsResp, statusResp, benchVars, embedVars, smokeVars, poolVars>>

\* lines 122-130: start the daemon thread and answer "started"
PostStart(h) ==
  /\ req[h].pc = "start"
  /\ wpc' = [wpc EXCEPT ![h] = "run"]
  /\ req' = [req EXCEPT ![h] = [@ EXCEPT !.pc = "done", !.code = 200, !.status = "started"]]
  /\ UNCHANGED <<benchmark_running, latest_results, benchmark_lock,
                 storeCount, resultsResp, statusResp, benchVars, embedVars, smokeVars, poolVars>>

\* Mutant: a new run begins by discarding the previous record
WorkerRun_ResetsResults(w, raised) ==
  /\ wpc[w] = "run"
  /\ wpc' = [wpc EXCEPT ![w] = IF raised THEN "lock_err" ELSE "lock_store"]
  /\ latest_results' = None
  /\ UNCHANGED <<benchmark_running, benchmark_lock, req,
                 storeCount, resultsResp, statusResp, benchVars, embedVars, smokeVars, poolVars>>

\* lines 37-76: the benchmark runs and results_data is built, or something
\* in the try block raises
WorkerRun(w, raised) ==
  /\ wpc[w] = "run"
  /\ wpc' = [wpc EXCEPT ![w] = IF raised THEN "lock_err" ELSE "lock_store"]
  /\ UNCHANGED <<benchmark_running, latest_results, benchmark_lock, req,
                 storeCount, resultsResp, statusResp, benchVars, embedVars, smokeVars, poolVars>>

\* lines 78, 82, 88: with benchmark_lock
WorkerAcquire(w) ==
  /\ wpc[w] \in {"lock_store", "lock_err", "lock_finally"}
  /\ LockFree
  /\ benchmark_lock' = WThread(w)
  /\ wpc' = [wpc EXCEPT ![w] = CASE @ = "lock_store" -> "store"
                                 [] @ = "lock_err" -> "err"
                                 [] OTHER -> "finally"]
  /\ UNCHANGED <<benchmark_running, latest_results, req, storeCount,
                 resultsResp, statusResp, benchVars, embedVars, smokeVars, poolVars>>

\* line 79: latest_results = results_data
WorkerStore(w) ==
  /\ wpc[w] = "store"
  /\ benchmark_lock = WThread(w)
  /\ latest_results' = [kind |-> "results", run |-> w]
  /\ storeCount' = storeCount + 1
  /\ benchmark_lock' = Unlocked
  /\ wpc' = [wpc EXCEPT ![w] = "lock_finally"]
  /\ UNCHANGED <<benchmark_running, req, resultsResp, statusResp, benchVars, embedVars, smokeVars, poolVars>>

\* Mutant: the except block swallows the exception and stores nothing
WorkerStoreError_NoStore(w) ==
  /\ wpc[w] = "err"
  /\ benchmark_lock = WThread(w)
  /\ benchmark_lock' = Unlocked
  /\ wpc' = [wpc EXCEPT ![w] = "lock_finally"]
  /\ UNCHANGED <<benchmark_running, latest_results, storeCount, req,
                 resultsResp, statusResp, benchVars, embedVars, smokeVars, poolVars>>

\* lines 83-86: latest_results = {"error": ..., "timestamp": ...}
WorkerStoreError(w) ==
  /\ wpc[w] = "err"
  /\ benchmark_lock = WThread(w)
  /\ latest_results' = [kind |-> "error", run |-> w]
  /\ storeCount' = storeCount + 1
  /\ benchmark_lock' = Unlocked
  /\ wpc' = [wpc EXCEPT ![w] = "lock_finally"]
  /\ UNCHANGED <<benchmark_running, req, resultsResp, statusResp, benchVars, embedVars, smokeVars, poolVars>>

\* line 89: benchmark_running = False; the thread ends
WorkerFinally(w) ==
  /\ wpc[w] = "finally"
  /\ benchmark_lock = WThread(w)
  /\ benchmark_running' = FALSE
  /\ benchmark_lock' = Unlocked
  /\ wpc' = [wpc EXCEPT ![w] = "done"]
  /\ UNCHANGED <<latest_results, req, storeCount, resultsResp, statusResp, benchVars, embedVars, smokeVars, poolVars>>

NoData == [kind |-> "no_data", run |-> 0]

\* Mutant: an error record is treated as "no results"
ResultsAnswer_ErrorIs404 ==
  IF latest_results = None \/ latest_results.kind = "error"
    THEN [code |-> 404, body |-> NoData]
    ELSE [code |-> 200, body |-> latest_results]

\* lines 148-154: the answer get_results computes from latest_results
ResultsAnswer ==
  IF latest_results = None
    THEN [code |-> 404, body |-> NoData]
    ELSE [code |-> 200, body |-> latest_results]

\* lines 144-154: GET /results, the whole handler runs under the lock
GetResults ==
  /\ LockFree
  /\ resultsResp' = ResultsAnswer
  /\ UNCHANGED <<benchmark_running, latest_results, benchmark_lock, req, wpc,
                 storeCount, statusResp, benchVars, embedVars, smokeVars, poolVars>>

\* lines 133-141: GET /status, the whole handler runs under the lock
GetStatus ==
  /\ LockFree
  /\ statusResp' = [code |-> 200, running |-> benchmark_running,
                    has_results |-> latest_results # None]
  /\ UNCHANGED <<benchmark_running, latest_results, benchmark_lock, req, wpc,
                 storeCount, resultsResp, benchVars, embedVars, smokeVars, poolVars>>

TrigNext ==
  \/ \E h \in Posts, b \in Bodies : PostArrive(h, b)
  \/ \E h \in Posts : PostAcquire(h)
  \/ \E h \in Posts : PostTest(h)
  \/ \E h \in Posts : PostSet(h)
  \/ \E h \in Posts : PostParse(h)
  \/ \E h \in Posts : PostStart(h)
  \/ \E w \in Posts, raised \in BOOLEAN : WorkerRun(w, raised)
  \/ \E w \in Posts : WorkerAcquire(w)
  \/ \E w \in Posts : WorkerStore(w)
  \/ \E w \in Posts : WorkerStoreError(w)
  \/ \E w \in Posts : WorkerFinally(w)
  \/ GetResults
  \/ GetStatus

\* ------------------------------------------------------------------------
\* benchmark.py
\* ------------------------------------------------------------------------
\* run_all_tests, lines 216-258: the five tests in program order
TestNames == <<"short_prompt_warmup", "short_prompt_medium_completion",
               "medium_prompt_long_completion", "long_prompt_stress_test",
               "code_generation">>
NumTests == Len(TestNames)

\* Outcomes of GET /health: a status code, or an exception of requests.get
\* (code 0: requests.get raised)
HealthOutcomes == {200, 204, 404, 503, 0}

\* Outcomes of POST /v1/chat/completions (lines 120-152)
\*   conn_error : requests.post raises (connection refused, timeout)
\*   status_500 : a status code other than 200, line 134 raises
\*   bad_body   : status 200 and a body that is no JSON (response.json()
\*                raises, line 137) or no JSON object (data.get raises,
\*                line 140)
\*   ok         : status 200 and a JSON object
PostOutcomes == {"conn_error", "status_500", "bad_body", "ok"}
Raises(o) == o \in {"conn_error", "status_500", "bad_body"}

\* str(e) of the exception caught at line 175
ErrorText(o) ==
  CASE o = "conn_error" -> "ConnectionError"
    [] o = "status_500" -> "API returned status 500"
    [] OTHER -> "body is not a JSON object"

\* The server under test: llama-server on this host, whose answers carry
\* "timings" and whose process psutil finds, or another OpenAI-compatible
\* server without either
Backends == {"llama-server", "other"}
HasTimings(b) == b = "llama-server"
\* lines 196-204: num_threads of the llama-server process, 0 without one
LlamaThreadCount(b) == IF b = "llama-server" THEN 48 ELSE 0

\* values the server reports in a 200 answer
UsagePrompt == 7
UsageCompletion == 6
TimingsPerSecond == 20
TimingsPromptMs == 30
\* time.time() - start_time of a request, in seconds
Elapsed == 2
\* the k-th sample of psutil.cpu_percent and of memory.used in GB (a steady
\* load)
CpuSample(k) == 50
MemSample(k) == 4

NoMonitor == [monitoring |-> FALSE, thread |-> "none", n |-> 0]
NoCur == [outcome |-> "none"]
NoHealth == [outcome |-> -1, ret |-> FALSE]

RECURSIVE SumSeq(_)
\* sum(list)
SumSeq(t) == IF t = <<>> THEN 0 ELSE Head(t) + SumSeq(Tail(t))

RECURSIVE MaxSeq(_)
\* max(list) of a list that is not empty
MaxSeq(t) ==
  IF Len(t) = 1 THEN Head(t)
  ELSE IF Head(t) > MaxSeq(Tail(t)) THEN Head(t) ELSE MaxSeq(Tail(t))

\* cpu_samples and memory_samples after n rounds of the loop
CpuSamples(n) == [k \in 1..n |-> CpuSample(k)]
MemorySamples(n) == [k \in 1..n |-> MemSample(k)]

\* lines 65-70: the dict ResourceMonitor.stop returns (integer division for
\* the float averages); m.n is the length of cpu_samples and memory_samples
Stats(m) ==
  [avg_cpu |-> IF m.n > 0 THEN SumSeq(CpuSamples(m.n)) \div m.n ELSE 0,
   peak_cpu |-> IF m.n > 0 THEN MaxSeq(CpuSamples(m.n)) ELSE 0,
   avg_memory_gb |-> IF m.n > 0 THEN SumSeq(MemorySamples(m.n)) \div m.n ELSE 0,
   peak_memory_gb |-> IF m.n > 0 THEN MaxSeq(MemorySamples(m.n)) ELSE 0]

\* lines 177-191: the BenchmarkResult of a failed test
FailedResult(name, o) ==
  [test_name |-> name, prompt_tokens |-> 0, completion_tokens |-> 0,
   total_time_sec |-> 0, tokens_per_second |-> 0, first_token_latency_ms |-> 0,
   avg_cpu_percent |-> 0, peak_cpu_percent |-> 0, avg_memory_gb |-> 0,
   peak_memory_gb |-> 0, thread_count |-> 0, success |-> FALSE,
   error |-> ErrorText(o)]

\* lines 140-173: the BenchmarkResult of a test that got a 200 answer
SuccessResult(name, b, st) ==
  [test_name |-> name, prompt_tokens |-> UsagePrompt,
   completion_tokens |-> UsageCompletion, total_time_sec |-> Elapsed,
   tokens_per_second |-> IF HasTimings(b) THEN TimingsPerSecond
                         ELSE IF Elapsed > 0 THEN UsageCompletion \div Elapsed ELSE 0,
   first_token_latency_ms |-> IF HasTimings(b) THEN TimingsPromptMs ELSE 0,
   avg_cpu_percent |-> st.avg_cpu, peak_cpu_percent |-> st.peak_cpu,
   avg_memory_gb |-> st.avg_memory_gb, peak_memory_gb |-> st.peak_memory_gb,
   thread_count |-> LlamaThreadCount(b), success |-> TRUE, error |-> "None"]

BenchInit ==
  /\ bpc = "health"
  /\ ti = 0
  /\ results = <<>>
  /\ mon = NoMonitor
  /\ orphans = EmptyBag
  /\ cur = NoCur
  /\ health = NoHealth
  /\ postLog = <<>>
  /\ backend \in Backends
  /\ exitCode = -1

\* Mutant: any successful status counts as healthy (response.ok)
HealthReturn_AnyOk(o) == o >= 200 /\ o < 400

\* lines 96-101: True iff the request completed with status 200
HealthReturn(o) == IF o = 0 THEN FALSE ELSE o = 200

\* lines 94-101 and main, lines 355-362: test_health, then main leaves with 1
\* or goes on to run_all_tests
TestHealth(o) ==
  /\ bpc = "health"
  /\ health' = [outcome |-> o, ret |-> HealthReturn(o)]
  /\ IF HealthReturn(o)
       THEN bpc' = "monitor_start" /\ ti' = 1 /\ UNCHANGED exitCode
       ELSE bpc' = "exit" /\ exitCode' = 1 /\ UNCHANGED ti
  /\ UNCHANGED <<results, mon, orphans, cur, postLog, backend, trigVars, embedVars, smokeVars, poolVars>>

\* lines 112-113 and 50-57: monitor = ResourceMonitor(); monitor.start()
MonitorStart ==
  /\ bpc = "monitor_start"
  /\ mon' = [monitoring |-> TRUE, thread |-> "loop", n |-> 0]
  /\ bpc' = "post"
  /\ UNCHANGED <<ti, results, orphans, cur, health, postLog, backend, exitCode,
                 trigVars, embedVars, smokeVars, poolVars>>

\* line 74: while self.monitoring (a monitor takes at most MaxSamples samples)
SamplerLoop ==
  /\ mon.thread = "loop"
  /\ IF mon.monitoring
       THEN /\ mon.n < MaxSamples
            /\ mon' = [mon EXCEPT !.thread = "sampling"]
       ELSE mon' = [mon EXCEPT !.thread = "exited"]
  /\ UNCHANGED <<bpc, ti, results, orphans, cur, health, postLog, backend,
                 exitCode, trigVars, embedVars, smokeVars, poolVars>>

\* lines 76-84: psutil.cpu_percent(interval=0.1) returns, both samples are
\* appended, and the thread sleeps before it tests the flag again
SamplerSample ==
  /\ mon.thread = "sampling"
  /\ mon' = [mon EXCEPT !.thread = "loop", !.n = @ + 1]
  /\ UNCHANGED <<bpc, ti, results, orphans, cur, health, postLog, backend,
                 exitCode, trigVars, embedVars, smokeVars, poolVars>>

\* line 74 in a thread whose monitor was stopped and whose test has returned:
\* self.monitoring is False, the thread ends
OrphanExit ==
  /\ BagIn("loop", orphans)
  /\ orphans' = orphans (-) SetToBag({"loop"})
  /\ UNCHANGED <<bpc, ti, results, mon, cur, health, postLog, backend,
                 exitCode, trigVars, embedVars, smokeVars, poolVars>>

\* lines 76-84 in such a thread: the samples go to lists nothing reads
OrphanSample ==
  /\ BagIn("sampling", orphans)
  /\ orphans' = (orphans (-) SetToBag({"sampling"})) (+) SetToBag({"loop"})
  /\ UNCHANGED <<bpc, ti, results, mon, cur, health, postLog, backend,
                 exitCode, trigVars, embedVars, smokeVars, poolVars>>

\* lines 118-152: the request and the extraction of the metrics
PostRequest(o) ==
  /\ bpc = "post"
  /\ postLog' = Append(postLog, TestNames[ti])
  /\ cur' = [outcome |-> o]
  /\ bpc' = "stop"
  /\ UNCHANGED <<ti, results, mon, orphans, health, backend, exitCode, trigVars, embedVars, smokeVars, poolVars>>

\* lines 155 / 176 and 61: monitor.stop() clears the flag
MonitorStop ==
  /\ bpc = "stop"
  /\ mon' = [mon EXCEPT !.monitoring = FALSE]
  /\ bpc' = "join"
  /\ UNCHANGED <<ti, results, orphans, cur, health, postLog, backend, exitCode,
                 trigVars, embedVars, smokeVars, poolVars>>

\* lines 62-63: thread.join(timeout=1.0) returns when the thread has ended,
\* or after one second with the thread still running
JoinReturns ==
  \/ mon.thread = "exited"
  \/ mon.thread # "exited" /\ BagCardinality(orphans) < MaxLingering

\* The sampler threads once run_inference_test has returned: the thread of
\* its monitor joins the orphans unless it has ended
OrphansAfter ==
  IF mon.thread = "exited" THEN orphans ELSE orphans (+) SetToBag({mon.thread})

\* Mutant: a failed test keeps the statistics its monitor gathered
ResultOf_KeepStats(o) ==
  IF Raises(o)
    THEN <<[FailedResult(TestNames[ti], o) EXCEPT
              !.avg_cpu_percent = Stats(mon).avg_cpu,
              !.peak_cpu_percent = Stats(mon).peak_cpu]>>
    ELSE <<SuccessResult(TestNames[ti], backend, Stats(mon))>>

\* lines 160-191: the BenchmarkResult the call builds, as the list appended
ResultOf(o) ==
  IF Raises(o)
    THEN <<FailedResult(TestNames[ti], o)>>
    ELSE <<SuccessResult(TestNames[ti], backend, Stats(mon))>>

\* Mutant: the first failed test ends the suite
MoreTests_StopOnFailure == ti < NumTests /\ ~Raises(cur.outcome)

\* run_all_tests, lines 216-258: another run_inference_test call follows
MoreTests == ti < NumTests

\* lines 62-70, 158-194 and run_all_tests: join returns, the statistics are
\* read, the result is built and appended, and run_all_tests goes to its
\* next call; after the fifth, main prints, exports and returns 0 (lines
\* 365-371)
FinishTest ==
  /\ bpc = "join"
  /\ JoinReturns
  /\ results' = results \o ResultOf(cur.outcome)
  /\ cur' = NoCur
  /\ orphans' = OrphansAfter
  /\ mon' = NoMonitor
  /\ IF MoreTests
       THEN bpc' = "monitor_start" /\ ti' = ti + 1 /\ UNCHANGED exitCode
       ELSE bpc' = "exit" /\ exitCode' = 0 /\ UNCHANGED ti
  /\ UNCHANGED <<health, postLog, backend, trigVars, embedVars, smokeVars, poolVars>>

BenchNext ==
  \/ \E o \in HealthOutcomes : TestHealth(o)
  \/ MonitorStart
  \/ SamplerLoop
  \/ SamplerSample
  \/ OrphanExit
  \/ OrphanSample
  \/ \E o \in PostOutcomes : PostRequest(o)
  \/ MonitorStop
  \/ FinishTest

\* ------------------------------------------------------------------------
\* server.py
\* ------------------------------------------------------------------------
\* A text is a sequence of symbols; the tokenizer maps a symbol to a token
Alphabet == {"a", "b"}
SeqsUpTo(S, n) == UNION {[1..k -> S] : k \in 0..n}
Texts == SeqsUpTo(Alphabet, MaxTextLen)
TextLists == SeqsUpTo(Texts, MaxTexts)
Instructions == {<<"a">>, <<"b", "a">>}
\* max_length of a request: one that truncates, and the default (line 104)
MaxLengths == {2, 8192}

Min(a, b) == IF a < b THEN a ELSE b
Max(a, b) == IF a > b THEN a ELSE b

\* lines 39-41: f'Instruct: {task_description}\nQuery: {query}'
get_detailed_instruct(task_description, query) ==
  <<"Instruct: ">> \o task_description \o <<"\nQuery: ">> \o query

\* lines 159-165 for one text: truncation=True, max_length; the tokenizer of
\* the model ends every sequence with its end-of-text token
Tokenize(text, max_length) ==
  SubSeq(text, 1, Min(Len(text), max_length - 1)) \o <<"<eos>">>

Repeat(x, n) == [k \in 1..n |-> x]

RECURSIVE MaxLen(_)
MaxLen(rows) ==
  IF rows = <<>> THEN 0 ELSE Max(Len(Head(rows)), MaxLen(Tail(rows)))

\* lines 53-56 and 159-165: padding=True with padding_side='left'
\* batch_dict: input_ids and attention_mask, one row per text
TokenizeBatch(texts, max_length) ==
  LET rows == [r \in 1..Len(texts) |-> Tokenize(texts[r], max_length)]
      L == MaxLen(rows)
  IN [input_ids |-> [r \in 1..Len(texts) |->
                       Repeat("<pad>", L - Len(rows[r])) \o rows[r]],
      attention_mask |-> [r \in 1..Len(texts) |->
                       Repeat(0, L - Len(rows[r])) \o Repeat(1, Len(rows[r]))]]

\* The pretrained network (line 169), as a fixed causal function of the
\* attended tokens: two components per position, the second one positive
TokenWeight(t) ==
  CASE t = "a" -> 1
    [] t = "b" -> 2
    [] t = "Instruct: " -> 3
    [] t = "\nQuery: " -> 3
    [] OTHER -> 1

RECURSIVE HiddenAt(_, _, _)
\* last_hidden_state of one row at position p (0: before the first token)
HiddenAt(ids, mask, p) ==
  IF p = 0 THEN <<0, 1>>
  ELSE LET h == HiddenAt(ids, mask, p - 1) IN
       IF mask[p] = 1 THEN <<TokenWeight(ids[p]) - h[1], h[2] + 1>> ELSE h

\* line 169: outputs.last_hidden_state, [row][position] -> vector
Forward(batch) ==
  [r \in 1..Len(batch.input_ids) |->
     [p \in 1..Len(batch.input_ids[r]) |->
        HiddenAt(batch.input_ids[r], batch.attention_mask[r], p)]]

\* Mutant: the mask is ignored and the last position is taken (correct for
\* left padding only)
last_token_pool_AlwaysLast(last_hidden_states, attention_mask) ==
  [r \in 1..Len(attention_mask) |->
     last_hidden_states[r][Len(attention_mask[1])]]

\* lines 28-36: Python index -1 is the last position; sequence_lengths is a
\* 0-based index, and a negative one counts from the end
last_token_pool(last_hidden_states, attention_mask) ==
  LET batch_size == Len(attention_mask)
      L == Len(attention_mask[1])
      left_padding ==
        SumSeq([r \in 1..batch_size |-> attention_mask[r][L]]) = batch_size
  IN IF left_padding
       THEN [r \in 1..batch_size |-> last_hidden_states[r][L]]
       ELSE [r \in 1..batch_size |->
               LET sequence_length == SumSeq(attention_mask[r]) - 1
               IN last_hidden_states[r][IF sequence_length < 0
                                          THEN L + 1 + sequence_length
                                          ELSE sequence_length + 1]]

\* tensor.tolist(): floats are fixed-point numbers, Scale units per 1.0
ToFloat(v) == [k \in 1..Len(v) |-> v[k] * Scale]

RECURSIVE ISqrtIn(_, _, _)
ISqrtIn(n, lo, hi) ==
  IF lo >= hi THEN lo
  ELSE LET mid == (lo + hi + 1) \div 2 IN
       IF mid * mid <= n THEN ISqrtIn(n, mid, hi) ELSE ISqrtIn(n, lo, mid - 1)
\* floor of the square root
ISqrt(n) == ISqrtIn(n, 0, 46340)

SumSquares(v) == SumSeq([k \in 1..Len(v) |-> v[k] * v[k]])

\* Mutant: the L1 norm is used (p=1)
Normalize_L1(v) ==
  LET norm == SumSeq([k \in 1..Len(v) |-> IF v[k] < 0 THEN -v[k] ELSE v[k]]) * Scale
  IN [k \in 1..Len(v) |-> (v[k] * Scale * Scale) \div Max(norm, 1)]

\* line 174: F.normalize(embeddings, p=2, dim=1) for one row:
\* v / max(||v||_2, eps), eps being the smallest positive fixed-point number
Normalize(v) ==
  LET norm == ISqrt(SumSquares(v) * Scale * Scale)
  IN [k \in 1..Len(v) |-> (v[k] * Scale * Scale) \div Max(norm, 1)]

\* lines 159-177: embeddings_list
Embeddings(texts, normalize, max_length) ==
  LET batch_dict == TokenizeBatch(texts, max_length)
      pooled == last_token_pool(Forward(batch_dict), batch_dict.attention_mask)
  IN [r \in 1..Len(texts) |->
        IF normalize THEN Normalize(pooled[r]) ELSE ToFloat(pooled[r])]

ErrorResponse(c, reached) ==
  [code |-> c, embeddings |-> <<>>, embedding_dim |-> 0, num_embeddings |-> 0,
   tokenized |-> reached]

\* Mutant: embedding_dim keeps the default of EmbedResponse (line 122)
EmbeddingDim_Default(embeddings_list) == 4096

\* line 181: embedding_dim=len(embeddings_list[0])
EmbeddingDim(embeddings_list) == Len(embeddings_list[1])

\* Mutant: the texts are looked at before the model (the checks of lines 147
\* and 150 in the opposite order)
embed_texts_EmptyFirst(texts, normalize, max_length, fails) ==
  IF texts = <<>> THEN ErrorResponse(400, FALSE)
  ELSE IF ~loaded THEN ErrorResponse(503, FALSE)
  ELSE IF fails THEN ErrorResponse(500, TRUE)
  ELSE LET embeddings_list == Embeddings(texts, normalize, max_length)
       IN [code |-> 200, embeddings |-> embeddings_list,
           embedding_dim |-> EmbeddingDim(embeddings_list),
           num_embeddings |-> Len(embeddings_list), tokenized |-> TRUE]

\* lines 147-187: embed_texts; fails: the tokenizer or the model raises
embed_texts(texts, normalize, max_length, fails) ==
  IF ~loaded THEN ErrorResponse(503, FALSE)
  ELSE IF texts = <<>> THEN ErrorResponse(400, FALSE)
  ELSE IF fails THEN ErrorResponse(500, TRUE)
  ELSE LET embeddings_list == Embeddings(texts, normalize, max_length)
       IN [code |-> 200, embeddings |-> embeddings_list,
           embedding_dim |-> EmbeddingDim(embeddings_list),
           num_embeddings |-> Len(embeddings_list), tokenized |-> TRUE]

\* Mutant: the modified request is built without normalize and falls back to
\* its default
embed_query_DefaultNormalize(texts, instruction, normalize, max_length, fails) ==
  IF texts = <<>> THEN ErrorResponse(400, FALSE)
  ELSE embed_texts([k \in 1..Len(texts) |-> get_detailed_instruct(instruction, texts[k])],
                   TRUE, max_length, fails)

\* lines 197-213: embed_query
embed_query(texts, instruction, normalize, max_length, fails) ==
  IF texts = <<>> THEN ErrorResponse(400, FALSE)
  ELSE embed_texts([k \in 1..Len(texts) |-> get_detailed_instruct(instruction, texts[k])],
                   normalize, max_length, fails)

NoRequest == [endpoint |-> "none", texts |-> <<>>, instruction |-> <<>>,
              normalize |-> FALSE, max_length |-> 0, fails |-> FALSE]

EmbedInit ==
  /\ loaded = FALSE
  /\ epc = "idle"
  /\ ereq = NoRequest
  /\ eresp = ErrorResponse(0, FALSE)

\* lines 44-81: lifespan sets tokenizer and model before the server serves
Load ==
  /\ epc = "idle"
  /\ ~loaded
  /\ loaded' = TRUE
  /\ UNCHANGED <<epc, ereq, eresp, trigVars, benchVars, smokeVars, poolVars>>

\* lines 97-104: EmbedRequest, the body of both endpoints; fails: the
\* tokenizer or the model raises while the request is served
Requests ==
  [texts : TextLists, instruction : Instructions, normalize : BOOLEAN,
   max_length : MaxLengths, fails : BOOLEAN]

\* lines 137-187: POST /embed
PostEmbed ==
  /\ epc = "idle"
  /\ \E r \in Requests :
       /\ ereq' = [endpoint |-> "/embed", texts |-> r.texts,
                   instruction |-> r.instruction, normalize |-> r.normalize,
                   max_length |-> r.max_length, fails |-> r.fails]
       /\ eresp' = embed_texts(r.texts, r.normalize, r.max_length, r.fails)
  /\ epc' = "responded"
  /\ UNCHANGED <<loaded, trigVars, benchVars, smokeVars, poolVars>>

\* lines 190-213: POST /embed/query
PostEmbedQuery ==
  /\ epc = "idle"
  /\ \E r \in Requests :
       /\ ereq' = [endpoint |-> "/embed/query", texts |-> r.texts,
                   instruction |-> r.instruction, normalize |-> r.normalize,
                   max_length |-> r.max_length, fails |-> r.fails]
       /\ eresp' = embed_query(r.texts, r.instruction, r.normalize,
                               r.max_length, r.fails)
  /\ epc' = "responded"
  /\ UNCHANGED <<loaded, trigVars, benchVars, smokeVars, poolVars>>

\* the answer is sent; the handler keeps nothing
Respond ==
  /\ epc = "responded"
  /\ epc' = "idle"
  /\ ereq' = NoRequest
  /\ eresp' = ErrorResponse(0, FALSE)
  /\ UNCHANGED <<loaded, trigVars, benchVars, smokeVars, poolVars>>

EmbedNext ==
  \/ Load
  \/ PostEmbed
  \/ PostEmbedQuery
  \/ Respond

\* ------------------------------------------------------------------------
\* test_api.py
\* ------------------------------------------------------------------------
\* Embeddings the server may answer with for one text (normalize is true,
\* line 38, and the default for /embed/query)
UnitVectors == {Normalize(v) : v \in {<<1, 0>>, <<0, 1>>, <<1, 1>>, <<-1, 1>>}}
\* "embeddings" of an answer to a request with two texts
EmbeddingPairs == [1..2 -> UnitVectors]
\* None: the request was not answered with 200
NoEmbeddings == <<>>

\* status codes of the server's answers
SmokeStatuses == {200, 500, 503}

SmokeInit ==
  /\ spc = "health"
  /\ doc_embeddings = NoEmbeddings
  /\ query_embeddings = NoEmbeddings
  /\ similarityOk = "unset"
  /\ allPassed = FALSE
  /\ smokeExit = -1

\* lines 12-21 and 121-124: test_health, sys.exit(1) when it returns False
SmokeHealth(status) ==
  /\ spc = "health"
  /\ IF status = 200
       THEN spc' = "documents" /\ UNCHANGED smokeExit
       ELSE spc' = "exit" /\ smokeExit' = 1
  /\ UNCHANGED <<doc_embeddings, query_embeddings, similarityOk, allPassed,
                 trigVars, benchVars, embedVars, poolVars>>

\* lines 24-52 and 127-129: test_embed_documents returns data["embeddings"]
\* of a 200 answer and None otherwise; main leaves with 1 on None
SmokeDocuments(status, embeddings) ==
  /\ spc = "documents"
  /\ IF status = 200
       THEN /\ doc_embeddings' = embeddings
            /\ spc' = "queries"
            /\ UNCHANGED smokeExit
       ELSE /\ spc' = "exit"
            /\ smokeExit' = 1
            /\ UNCHANGED doc_embeddings
  /\ UNCHANGED <<query_embeddings, similarityOk, allPassed,
                 trigVars, benchVars, embedVars, poolVars>>

\* lines 55-83 and 132-134: test_embed_queries, likewise
SmokeQueries(status, embeddings) ==
  /\ spc = "queries"
  /\ IF status = 200
       THEN /\ query_embeddings' = embeddings
            /\ spc' = "similarity"
            /\ UNCHANGED smokeExit
       ELSE /\ spc' = "exit"
            /\ smokeExit' = 1
            /\ UNCHANGED query_embeddings
  /\ UNCHANGED <<doc_embeddings, similarityOk, allPassed,
                 trigVars, benchVars, embedVars, poolVars>>

\* line 97: one entry of queries @ docs.T
Dot(u, v) == SumSeq([k \in 1..Len(u) |-> u[k] * v[k]])
Similarity(queries, docs) ==
  [i \in 1..Len(queries) |-> [j \in 1..Len(docs) |-> Dot(queries[i], docs[j])]]

\* line 106: the diagonal is the highest entry of both rows
DiagonalHighest(similarity) ==
  /\ similarity[1][1] > similarity[1][2]
  /\ similarity[2][2] > similarity[2][1]

\* lines 86-111 and 137: test_similarity returns True or, after printing a
\* warning, False; main does not look at what it returns
SmokeSimilarity ==
  /\ spc = "similarity"
  /\ similarityOk' =
       IF DiagonalHighest(Similarity(query_embeddings, doc_embeddings))
         THEN "True" ELSE "False"
  /\ spc' = "report"
  /\ UNCHANGED <<doc_embeddings, query_embeddings, allPassed, smokeExit,
                 trigVars, benchVars, embedVars, poolVars>>

\* lines 139-141: print("All tests passed!"); main returns
SmokeReport ==
  /\ spc = "report"
  /\ allPassed' = TRUE
  /\ smokeExit' = 0
  /\ spc' = "exit"
  /\ UNCHANGED <<doc_embeddings, query_embeddings, similarityOk,
                 trigVars, benchVars, embedVars, poolVars>>

SmokeNext ==
  \/ \E status \in SmokeStatuses : SmokeHealth(status)
  \/ \E status \in SmokeStatuses, e \in EmbeddingPairs : SmokeDocuments(status, e)
  \/ \E status \in SmokeStatuses, e \in EmbeddingPairs : SmokeQueries(status, e)
  \/ SmokeSimilarity
  \/ SmokeReport


\* ------------------------------------------------------------------------
\* server.py: last_token_pool on arbitrary batches
\* ------------------------------------------------------------------------
\* attention masks of B rows and L positions
Masks(B, L) == [1..B -> [1..L -> {0, 1}]]
AllMasks == UNION {Masks(B, L) : B \in 1..MaxBatch, L \in 1..MaxSeqLen}

\* hidden states of a batch: one vector per row and position, all different
HiddenStates(B, L) == [r \in 1..B |-> [p \in 1..L |-> <<r, p>>]]

PoolInit ==
  /\ ppc = "idle"
  /\ pmask = <<>>
  /\ phidden = <<>>
  /\ ppooled = <<>>

\* lines 28-36: a call of last_token_pool and what it returns
PoolCall ==
  /\ ppc = "idle"
  /\ \E mask \in AllMasks :
       LET hidden == HiddenStates(Len(mask), Len(mask[1])) IN
         /\ pmask' = mask
         /\ phidden' = hidden
         /\ ppooled' = last_token_pool(hidden, mask)
  /\ ppc' = "pooled"
  /\ UNCHANGED <<trigVars, benchVars, embedVars, smokeVars>>

\* the caller goes on (line 170); the function keeps nothing
PoolReturn ==
  /\ ppc = "pooled"
  /\ ppc' = "idle"
  /\ pmask' = <<>>
  /\ phidden' = <<>>
  /\ ppooled' = <<>>
  /\ UNCHANGED <<trigVars, benchVars, embedVars, smokeVars>>

PoolNext ==
  \/ PoolCall
  \/ PoolReturn

Init == TrigInit /\ BenchInit /\ EmbedInit /\ SmokeInit /\ PoolInit

SpecTrigger == Init /\ [][TrigNext]_vars

SpecBench == Init /\ [][BenchNext]_vars

SpecEmbed == Init /\ [][EmbedNext]_vars

SpecSmoke == Init /\ [][SmokeNext]_vars

SpecPool == Init /\ [][PoolNext]_vars

\* Every thread of the trigger server that can take its next step takes it
\* in the end: Flask's request threads and the daemon worker threads are
\* scheduled by the operating system, and a lock that is released is handed
\* to a waiting thread (lines 78, 82, 88, 107)
TrigFairness ==
  /\ \A h \in Posts : WF_vars(PostAcquire(h))
  /\ \A h \in Posts : WF_vars(PostTest(h))
  /\ \A h \in Posts : WF_vars(PostSet(h))
  /\ \A h \in Posts : WF_vars(PostParse(h))
  /\ \A h \in Posts : WF_vars(PostStart(h))
  /\ \A w \in Posts : WF_vars(\E raised \in BOOLEAN : WorkerRun(w, raised))
  /\ \A w \in Posts : WF_vars(WorkerAcquire(w))
  /\ \A w \in Posts : WF_vars(WorkerStore(w))
  /\ \A w \in Posts : WF_vars(WorkerStoreError(w))
  /\ \A w \in Posts : WF_vars(WorkerFinally(w))

SpecTriggerLive == Init /\ [][TrigNext]_vars /\ TrigFairness

\* ------------------------------------------------------------------------
\* Claims about benchmark_api.py
\* ------------------------------------------------------------------------
\* worker threads inside run_benchmark_async
ExecutingWorkers == {w \in Posts : wpc[w] \notin {"none", "done"}}

\* C1: under every interleaving of POST /benchmark requests and worker
\* completions at most one run_benchmark_async thread is executing, and
\* benchmark_running is true for as long as it executes, so no second
\* worker is started during a run.
C1_AtMostOneWorker ==
  /\ Cardinality(ExecutingWorkers) <= 1
  /\ (ExecutingWorkers # {} => benchmark_running)

\* C1 witness: a worker executes while another request is inside
\* trigger_benchmark, and a worker of an earlier or later run exists too
C1_Witness ==
  \E w \in Posts, h \in Posts :
    /\ w # h
    /\ wpc[w] = "run"
    /\ req[h].pc \in {"acquire", "test"}

\* the step in which request h evaluates line 108
C2_TestStep(h) ==
  (req[h].pc = "test" /\ req'[h].pc # "test") =>
     IF benchmark_running
       THEN /\ req'[h].pc = "done"
            /\ req'[h].code = 409
            /\ req'[h].status = "busy"
            /\ wpc' = wpc
            /\ benchmark_running' = benchmark_running
            /\ latest_results' = latest_results
       ELSE req'[h].code # 409

\* C2: a POST /benchmark whose check of benchmark_running (line 108, under
\* the lock) finds it true is answered 409 "busy", starts no thread and
\* leaves benchmark_running and latest_results unchanged; one that finds it
\* false is never answered 409, whatever its body.
C2_BusyIs409 ==
  /\ [](\A h \in Posts :
         /\ (req[h].saw = "True" => req[h].code = 409 /\ wpc[h] = "none")
         /\ (req[h].saw = "False" => req[h].code # 409)
         /\ (req[h].code = 409 => req[h].saw = "True"))
  /\ [][\A h \in Posts : C2_TestStep(h)]_vars

\* C2 witness: one request was refused with 409 while the run another
\* request started is in progress
C2_Witness ==
  \E h1 \in Posts, h2 \in Posts :
    /\ req[h1].code = 409 /\ req[h1].status = "busy"
    /\ req[h2].status = "started"
    /\ wpc[h2] = "run"
    /\ benchmark_running

\* C3: GET /results answers 404 exactly when no run has stored anything in
\* latest_results yet, and 200 with the stored record whenever something
\* was stored, the error record of a run that raised included.
C3_ResultsCode ==
  /\ [](/\ (ResultsAnswer.code = 404 <=> storeCount = 0)
        /\ (storeCount > 0 => ResultsAnswer = [code |-> 200, body |-> latest_results])
        /\ (storeCount > 0 => latest_results.kind \in {"results", "error"}))
  /\ [][GetResults =>
          /\ (resultsResp'.code = 404 <=> storeCount = 0)
          /\ (storeCount > 0 => resultsResp' = [code |-> 200, body |-> latest_results])]_vars

\* C3 witness: /results answered 200 with the error record of a run that
\* raised, after having answered 404 is no longer possible
C3_Witness ==
  /\ resultsResp.code = 200
  /\ resultsResp.body.kind = "error"
  /\ storeCount > 0

\* a thread exists that will reset benchmark_running: a worker that has not
\* ended, or the request thread that set the flag and is still on its way to
\* starting the worker (lines 117-124)
ResetPending ==
  \/ \E w \in Posts : wpc[w] \notin {"none", "done"}
  \/ \E h \in Posts : req[h].pc \in {"parse", "start"}

\* C11: the trigger server never stays busy forever, for every request body
\* and whether the run completes or raises: benchmark_running is true only
\* while a thread exists that will reset it.
C11_BusyHasResetter ==
  benchmark_running => ResetPending

\* C11 as a liveness property: whenever benchmark_running is true it
\* eventually becomes false again (under TrigFairness)
C11_BusyEndsEventually ==
  benchmark_running ~> ~benchmark_running

\* C11 for well-formed requests: when every body is absent or a JSON object,
\* the flag is always reset in the end (under TrigFairness)
C11_BusyEndsForObjects ==
  [](\A h \in Posts : req[h].body \in {"absent", "object"}) =>
    (benchmark_running ~> ~benchmark_running)

\* a POST /benchmark was answered "started"
Started(h) == req[h].status = "started"

\* C12: a worker stores its outcome before it clears the flag: whenever a
\* started run's worker has reset benchmark_running, latest_results is set,
\* and whenever the flag is false after some request was answered "started",
\* GET /results does not answer 404.
C12_StoredBeforeCleared ==
  /\ \A w \in Posts : wpc[w] = "done" => latest_results # None
  /\ \A w \in Posts : wpc[w] \in {"lock_finally", "finally"} => latest_results # None
  /\ ((\E h \in Posts : Started(h)) /\ ~benchmark_running) =>
        /\ ResultsAnswer.code = 200
        /\ \E w \in Posts : wpc[w] = "done"

\* C12 witness: a run that raised has ended, the flag is false again and a
\* client that saw running = false was answered 200 with the error record
C12_Witness ==
  /\ \E w \in Posts : wpc[w] = "done" /\ Started(w)
  /\ ~benchmark_running
  /\ latest_results.kind = "error"
  /\ statusResp.code = 200 /\ ~statusResp.running /\ statusResp.has_results
  /\ resultsResp = [code |-> 200, body |-> latest_results]

\* one step of the trigger server, as C13 describes it
C13_Step ==
  \* latest_results is replaced only by a worker's store, with that worker's
  \* record, never with None
  /\ latest_results' # latest_results =>
        \E w \in Posts : /\ wpc[w] \in {"store", "err"}
                         /\ wpc'[w] = "lock_finally"
                         /\ latest_results' # None
                         /\ latest_results'.run = w
                         /\ storeCount' = storeCount + 1
  \* the run that completes is the one whose record is stored
  /\ \A w \in Posts : (wpc[w] # "done" /\ wpc'[w] = "done") =>
        (latest_results.run = w /\ latest_results' = latest_results)
  \* GET /results answers with the stored record as it is
  /\ resultsResp' # resultsResp =>
        resultsResp' = IF latest_results = None
                         THEN [code |-> 404, body |-> NoData]
                         ELSE [code |-> 200, body |-> latest_results]

\* C13: GET /results returns the record of the most recently completed run:
\* latest_results is only ever replaced by a finishing worker, never reset
\* to None, and while a new run is in progress the previous record stays
\* unchanged until the new worker stores its own.
C13_MostRecentRun == [][C13_Step]_vars

\* C13 witness: the first run has completed, a second run is in progress and
\* has not stored yet, and GET /results has just answered with the record of
\* the first run
C13_Witness ==
  \E w, v \in Posts :
    /\ w # v
    /\ wpc[w] = "done"
    /\ wpc[v] \in {"run", "lock_store", "lock_err"}
    /\ benchmark_running
    /\ latest_results.run = w
    /\ storeCount = 1
    /\ resultsResp = [code |-> 200, body |-> latest_results]

\* ------------------------------------------------------------------------
\* Claims about benchmark.py
\* ------------------------------------------------------------------------
\* C4: test_health returns True if and only if GET /health completed with
\* status 200; for every other status and for an exception of the request it
\* returns False, and main goes on (to its "not responding" exit) instead of
\* failing.
C4_HealthIff200 ==
  health.outcome # -1 =>
    /\ (health.ret <=> health.outcome = 200)
    /\ (health.outcome = 0 => ~health.ret)
    /\ (~health.ret => bpc = "exit" /\ exitCode = 1 /\ results = <<>>)
    /\ (health.ret => ti >= 1)

\* C4 witness: the request raised and test_health returned False
C4_Witness ==
  /\ health.outcome = 0
  /\ ~health.ret
  /\ exitCode = 1

\* the numeric fields of a BenchmarkResult
NumericFields(r) ==
  <<r.prompt_tokens, r.completion_tokens, r.total_time_sec,
    r.tokens_per_second, r.first_token_latency_ms, r.avg_cpu_percent,
    r.peak_cpu_percent, r.avg_memory_gb, r.peak_memory_gb, r.thread_count>>

AllZero(t) == \A k \in 1..Len(t) : t[k] = 0

\* the step in which a run_inference_test call returns
C9_Return ==
  (bpc = "join" /\ bpc' # "join") =>
    /\ Len(results') = Len(results) + 1
    /\ SubSeq(results', 1, Len(results)) = results
    /\ LET r == results'[Len(results')] IN
         /\ r.test_name = TestNames[ti]
         /\ IF cur.outcome \in {"conn_error", "status_500", "bad_body"}
              THEN ~r.success /\ r.error # "None" /\ AllZero(NumericFields(r))
              ELSE r.success /\ r.error = "None"

NamesOf(rs) == [k \in 1..Len(rs) |-> rs[k].test_name]

\* C10: run_all_tests sends exactly one POST per test, in the order
\* short_prompt_warmup, short_prompt_medium_completion,
\* medium_prompt_long_completion, long_prompt_stress_test, code_generation,
\* and goes on after a failed test: on return results holds exactly the five
\* results in that order, whatever the outcomes were.
C10_FiveTestsInOrder ==
  /\ Len(postLog) <= NumTests
  /\ postLog = SubSeq(TestNames, 1, Len(postLog))
  /\ Len(results) <= Len(postLog)
  /\ Len(postLog) - Len(results) <= 1
  /\ NamesOf(results) = SubSeq(TestNames, 1, Len(results))
  /\ (bpc = "exit" /\ exitCode = 0 =>
        /\ postLog = TestNames
        /\ Len(results) = NumTests
        /\ NamesOf(results) = TestNames)
  /\ (health.ret /\ bpc # "exit" => ti = Len(results) + 1)

\* C10 witness: the suite returned although its first and fourth tests
\* failed, and the tests after them ran
C10_Witness ==
  /\ bpc = "exit" /\ exitCode = 0
  /\ Len(results) = NumTests
  /\ ~results[1].success
  /\ results[2].success
  /\ ~results[4].success
  /\ results[5].success

\* sampler threads that have not left _monitor_loop: the one of the running
\* test and those that outlived the join of an earlier test
ActiveSamplers ==
  (IF mon.thread \in {"loop", "sampling"} THEN 1 ELSE 0) + BagCardinality(orphans)

\* C14: at most one resource-sampling thread is active at any time: the
\* sampler of a test has left its loop, and appends no further samples,
\* before the next test starts its own.
C14_OneSampler ==
  /\ ActiveSamplers <= 1
  /\ (bpc = "monitor_start" => orphans = EmptyBag)

\* ------------------------------------------------------------------------
\* Claims about server.py
\* ------------------------------------------------------------------------
Answered(endpoint) == epc = "responded" /\ ereq.endpoint = endpoint

\* what the server returns for one text embedded on its own
Alone(text) == Embeddings(<<text>>, ereq.normalize, ereq.max_length)[1]

\* C5: a successful POST /embed with N >= 1 texts returns exactly N vectors,
\* the i-th being the embedding of the i-th text, num_embeddings = N, and
\* every vector has the length the response declares as embedding_dim.
C5_CountOrderDim ==
  (Answered("/embed") /\ eresp.code = 200) =>
    LET N == Len(ereq.texts) IN
      /\ N >= 1
      /\ Len(eresp.embeddings) = N
      /\ eresp.num_embeddings = N
      /\ \A i \in 1..N :
           /\ Len(eresp.embeddings[i]) = eresp.embedding_dim
           /\ eresp.embeddings[i] = Alone(ereq.texts[i])

\* C5 witness: two texts of different length, so that one row is padded,
\* were embedded to two different vectors
C5_Witness ==
  /\ Answered("/embed") /\ eresp.code = 200
  /\ Len(ereq.texts) = 2
  /\ Len(ereq.texts[1]) < Len(ereq.texts[2])
  /\ ereq.max_length > MaxTextLen
  /\ eresp.embeddings[1] # eresp.embeddings[2]

\* the L2 norm of a fixed-point vector is 1.0 within NormTolerance
UnitNorm(v) ==
  /\ SumSquares(v) >= (Scale - NormTolerance) * (Scale - NormTolerance)
  /\ SumSquares(v) <= (Scale + NormTolerance) * (Scale + NormTolerance)

\* the pooled vectors of the answered request, before normalisation
PooledOf(texts) ==
  LET batch_dict == TokenizeBatch(texts, ereq.max_length)
  IN last_token_pool(Forward(batch_dict), batch_dict.attention_mask)

\* C6: with normalize true every vector /embed returns has unit L2 norm
\* within tolerance; with normalize false the pooled vectors are returned as
\* they are. (The network's hidden states are never the zero vector.)
C6_UnitNorm ==
  (Answered("/embed") /\ eresp.code = 200) =>
    \A i \in 1..Len(eresp.embeddings) :
      IF ereq.normalize
        THEN UnitNorm(eresp.embeddings[i])
        ELSE eresp.embeddings[i] = ToFloat(PooledOf(ereq.texts)[i])

\* C6 witness: a normalised vector with a negative component, whose pooled
\* vector was not of unit length
C6_Witness ==
  /\ Answered("/embed") /\ eresp.code = 200
  /\ ereq.normalize
  /\ \E i \in 1..Len(eresp.embeddings) :
       /\ eresp.embeddings[i][1] < 0
       /\ eresp.embeddings[i][2] > 0
       /\ SumSquares(PooledOf(ereq.texts)[i]) > 1

\* the texts /embed/query is said to pass on
Formatted(texts, instruction) ==
  [k \in 1..Len(texts) |-> <<"Instruct: ">> \o instruction \o <<"\nQuery: ">> \o texts[k]]

\* what POST /embed answers for the rewritten texts of the answered request
EmbedOfFormatted ==
  embed_texts(Formatted(ereq.texts, ereq.instruction), ereq.normalize,
              ereq.max_length, ereq.fails)

\* C8 as stated: POST /embed/query returns exactly what POST /embed returns
\* for the texts "Instruct: <instruction>\nQuery: <t>", for every request.
C8_Original ==
  Answered("/embed/query") => eresp = EmbedOfFormatted

\* C8 amended: for a non-empty list of texts POST /embed/query returns
\* exactly what POST /embed returns for the rewritten texts with the same
\* normalize and max_length, vector for vector; an empty list is answered
\* 400 before the model is looked at, where /embed answers 503 while the
\* model is not loaded.
C8_QueryIsEmbedOfFormatted ==
  Answered("/embed/query") =>
    /\ (ereq.texts # <<>> => eresp = EmbedOfFormatted)
    /\ (ereq.texts = <<>> => eresp.code = 400)
    /\ (ereq.texts = <<>> /\ loaded => eresp = EmbedOfFormatted)
    /\ (ereq.texts = <<>> /\ ~loaded => EmbedOfFormatted.code = 503)

\* C8 witness: two queries were embedded without normalisation, in order,
\* to vectors that differ from those of the bare texts
C8_Witness ==
  /\ Answered("/embed/query") /\ eresp.code = 200
  /\ Len(ereq.texts) = 2
  /\ ~ereq.normalize
  /\ eresp.embeddings[1] # eresp.embeddings[2]
  /\ eresp.embeddings # Embeddings(ereq.texts, ereq.normalize, ereq.max_length)

\* C16: a request with an empty texts list never reaches the tokenizer or
\* the model: POST /embed/query answers 400, POST /embed answers 400 when
\* the model is loaded and 503 when it is not; POST /embed with the model not
\* loaded answers 503 for every request.
C16_EmptyAndUnloaded ==
  epc = "responded" =>
    /\ ereq.texts = <<>> =>
          /\ ~eresp.tokenized
          /\ eresp.embeddings = <<>>
          /\ ereq.endpoint = "/embed/query" => eresp.code = 400
          /\ ereq.endpoint = "/embed" => eresp.code = (IF loaded THEN 400 ELSE 503)
    /\ (ereq.endpoint = "/embed" /\ ~loaded) =>
          (eresp.code = 503 /\ ~eresp.tokenized)

\* C16 witness: POST /embed with no texts was answered 503 while the model
\* was not loaded, although the tokenizer would have raised
C16_Witness ==
  /\ Answered("/embed")
  /\ ereq.texts = <<>>
  /\ ~loaded
  /\ ereq.fails
  /\ eresp = ErrorResponse(503, FALSE)

\* every row of the mask ends in 1
LeftPadded(mask) == \A r \in 1..Len(mask) : mask[r][Len(mask[r])] = 1

\* the 1s of every row form a non-empty prefix
RightPadded(mask) ==
  \A r \in 1..Len(mask) :
    \E k \in 1..Len(mask[r]) :
      \A p \in 1..Len(mask[r]) : mask[r][p] = (IF p <= k THEN 1 ELSE 0)

\* position of the last 1 of a row that has one
LastAttended(row) ==
  CHOOSE p \in 1..Len(row) : row[p] = 1 /\ \A q \in (p + 1)..Len(row) : row[q] = 0

\* C15: for every batch whose mask is left-padded or right-padded,
\* last_token_pool returns for each row the hidden state at the position of
\* that row's last attended token.
C15_LastAttendedToken ==
  (ppc = "pooled" /\ (LeftPadded(pmask) \/ RightPadded(pmask))) =>
    /\ Len(ppooled) = Len(pmask)
    /\ \A r \in 1..Len(pmask) :
         ppooled[r] = phidden[r][LastAttended(pmask[r])]

\* C15 witness: a right-padded batch of two rows, the first shorter than the
\* second, pooled at two different positions
C15_Witness ==
  /\ ppc = "pooled"
  /\ Len(pmask) = 2
  /\ RightPadded(pmask) /\ ~LeftPadded(pmask)
  /\ LastAttended(pmask[1]) < LastAttended(pmask[2])
  /\ LastAttended(pmask[2]) < Len(pmask[2])
  /\ ppooled = <<<<1, LastAttended(pmask[1])>>,
                <<2, LastAttended(pmask[2])>>>>

\* ------------------------------------------------------------------------
\* Claims about test_api.py
\* ------------------------------------------------------------------------
\* C7: when for some query the similarity to its own document is not
\* strictly greater than the similarity to the other document, the run does
\* not end by reporting that all tests passed.
C7_NoPassOnMismatch ==
  allPassed => DiagonalHighest(Similarity(query_embeddings, doc_embeddings))

====
